---- MODULE Spec2Model ----
(***************************************************************************)
(* Model of scraper/src/manager.rs: the crawl frontier (queue), the link   *)
(* graph (domains, visited, redirects), the purge and revisit policies and *)
(* the backup-rotating persistence of graph.json / graph.bak.json.         *)
(***************************************************************************)
EXTENDS Integers, Sequences, FiniteSets, TLC

\* ------------------------------------------------------------------ bounds
MaxLinks == 1
MaxQueue == 3
MaxVisited == 1
MaxRedirects == 1
MaxFetchLinks == 2
Epoch == 1000000

\* ------------------------------------------------------- program constants
\* 60 * 60 * 24 * 7, the literal of should_be_queued
Window == 604800

should_refetch_empty_sites == FALSE

\* ------------------------------------------------------------- the strings
\* The URL strings the model draws from: the blank string (also an empty
\* relative reference), two sites, one site written without its trailing
\* slash, and the denylisted host.
UrlA == "http://a/"
UrlB == "http://b/"
UrlBraw == "http://b"
UrlYT == "http://youtube.com/"
Blank == ""

\* a third site, used where a claim needs a chain of two redirects
UrlC == "http://c/"

URLS == {Blank, UrlA, UrlB, UrlBraw, UrlYT}

\* The clock readings the model draws from (seconds since the epoch).
ClockValues == {Epoch, Epoch + 1, Epoch + Window}

\* str::trim on the strings of the model
Trim(u) == IF u \in {Blank, " ", "  "} THEN Blank ELSE u

\* url::Url::parse(u).is_ok(): a string without a scheme is a relative
\* reference and does not parse on its own.
ParseOk(u) == Trim(u) # Blank

\* Url::to_string of a parsed URL: an empty path is written "/".
UrlToString(u) == IF u = UrlBraw THEN UrlB ELSE u

\* Url::host_str of a parsed URL
HostStr(u) ==
    CASE u = UrlA -> "a"
      [] u \in {UrlB, UrlBraw} -> "b"
      [] u = UrlC -> "c"
      [] u = UrlYT -> "youtube.com"
      [] OTHER -> "none"

\* Url::parse(base).map(|x| x.join(ref)) followed by to_string: <<>> when
\* the base does not parse, else <<absolute form>>. An empty reference
\* resolves to the base itself; an absolute reference replaces the base.
JoinUrl(base, ref) ==
    IF ~ParseOk(base) THEN <<>>
    ELSE IF ParseOk(ref) THEN <<UrlToString(ref)>>
    ELSE <<UrlToString(base)>>

\* Byte-wise order of the strings (String's Ord, used by Vec::sort)
Rank(u) ==
    CASE u = Blank -> 0
      [] u = " " -> 1
      [] u = "  " -> 2
      [] u = UrlA -> 3
      [] u = UrlBraw -> 4
      [] u = UrlB -> 5
      [] u = UrlC -> 6
      [] OTHER -> 7

\* ------------------------------------------------------------ finite maps
MapRemove(f, k) == [x \in DOMAIN f \ {k} |-> f[x]]

MapInsert(f, k, v) == [x \in DOMAIN f \cup {k} |-> IF x = k THEN v ELSE f[x]]

EmptyMap == [x \in {} |-> Blank]

\* Graph::default()
EmptyGraph == [domains |-> EmptyMap, visited |-> EmptyMap, redirects |-> EmptyMap]

\* --------------------------------------------------------------- sequences
RECURSIVE Dedup(_)
\* Vec::dedup: removes consecutive repeated elements only
Dedup(s) ==
    IF Len(s) <= 1 THEN s
    ELSE IF s[1] = s[2] THEN Dedup(Tail(s))
    ELSE <<s[1]>> \o Dedup(Tail(s))

RECURSIVE InsertSorted(_, _)
InsertSorted(s, u) ==
    IF s = <<>> THEN <<u>>
    ELSE IF Rank(u) <= Rank(Head(s)) THEN <<u>> \o s
    ELSE <<Head(s)>> \o InsertSorted(Tail(s), u)

\* a sort that leaves the Vec as it is
SortQueueMut(s) == s

RECURSIVE SortQueue(_)
\* Vec::sort
SortQueue(s) == IF s = <<>> THEN <<>> ELSE InsertSorted(SortQueue(Tail(s)), Head(s))

\* every rearrangement of s (what shuffle may produce)
Shuffles(s) ==
    IF s = <<>> THEN {<<>>} ELSE
    {[i \in 1..Len(s) |-> s[p[i]]] :
        p \in {q \in [1..Len(s) -> 1..Len(s)] :
                 \A i, j \in 1..Len(s) : i # j => q[i] # q[j]}}

\* every order in which a HashMap with key set K may be iterated
KeyOrders(K) ==
    {o \in [1..Cardinality(K) -> K] :
        \A i, j \in 1..Cardinality(K) : i # j => o[i] # o[j]}

NoDuplicates(s) == \A i, j \in 1..Len(s) : i # j => s[i] # s[j]

\* ---------------------------------------------------------------- policies
\* the window test with <= for <
InsideWindowMut(t, stamp) == t - stamp <= Window

\* now - timestamp < 60*60*24*7 (lines 133-135 and 150-152). The clock of the
\* model never reads less than a stamp it gave, so the usize subtraction does
\* not wrap.
InsideWindow(t, stamp) == t - stamp < Window

\* should_be_queued without the redirect lookup of lines 140-156
should_be_queuedMut(g, t, url) ==
    ~(url \in DOMAIN g.visited /\ InsideWindow(t, g.visited[url]))

should_be_queued(g, t, url) ==
    IF should_refetch_empty_sites
       /\ url \in DOMAIN g.domains
       /\ g.domains[url] = <<>>
    THEN TRUE
    ELSE IF url \in DOMAIN g.visited /\ InsideWindow(t, g.visited[url])
    THEN FALSE
    ELSE IF url \in DOMAIN g.redirects
    THEN LET redirect == g.redirects[url] IN
         IF should_refetch_empty_sites
            /\ redirect \in DOMAIN g.domains
            /\ g.domains[redirect] = <<>>
         THEN TRUE
         ELSE IF redirect \in DOMAIN g.visited /\ InsideWindow(t, g.visited[redirect])
         THEN FALSE
         ELSE TRUE
    ELSE TRUE

\* the self-loop test with links.len() > 1 for links.len() == 1
SelfLoopMut(g, url) ==
    /\ url \in DOMAIN g.domains
    /\ Len(g.domains[url]) > 1
    /\ g.domains[url][1] = url

\* the self-loop test of should_be_purged (lines 166-168): domains[url]
\* exists and its only link is url
SelfLoop(g, url) ==
    /\ url \in DOMAIN g.domains
    /\ Len(g.domains[url]) = 1
    /\ g.domains[url][1] = url

should_be_purged(g, url) ==
    \/ Trim(url) = Blank
    \/ SelfLoop(g, url)
    \/ /\ url \in DOMAIN g.redirects
       /\ LET redirect == g.redirects[url] IN
            /\ redirect \in DOMAIN g.domains
            /\ Len(g.domains[redirect]) = 1
            /\ g.domains[redirect][1] = url
    \/ /\ ParseOk(url)
       /\ HostStr(url) = "youtube.com"

\* ------------------------------------------------------------- persistence
\* A file is absent, holds a complete JSON text, or holds a torn (partly
\* written) text. The JSON text of a graph is its three objects, each a set
\* of key/value members.
Absent == [kind |-> "absent", text |-> <<>>]
Torn == [kind |-> "torn", text |-> <<>>]

Members(f) == {<<k, f[k]>> : k \in DOMAIN f}

FromMembers(m) == [k \in {e[1] : e \in m} |-> (CHOOSE e \in m : e[1] = k)[2]]

\* serde_json::to_string(&self.graph)
Serialize(g) ==
    [kind |-> "json",
     text |-> <<Members(g.domains), Members(g.visited), Members(g.redirects)>>]

\* read(): the graph parsed from graph.json, or the graph kept (g) when the
\* file is missing or does not parse
read(g, file) ==
    IF file.kind = "json"
    THEN [domains |-> FromMembers(file.text[1]),
          visited |-> FromMembers(file.text[2]),
          redirects |-> FromMembers(file.text[3])]
    ELSE g

\* Where a write() stops: "none" (remove_file failed, or nothing ran yet),
\* "removed" (backup deleted; rename failed), "renamed" (primary renamed to
\* backup; the new primary was not created), "torn" (the new primary was
\* partly written), "written" (Ok).
WriteStops == {"none", "removed", "renamed", "torn", "written"}

\* write() without the rename of lines 48-50
writeMut(files, g, stop) ==
    LET f1 == IF stop # "none" /\ files.backup.kind # "absent"
              THEN [files EXCEPT !.backup = Absent]
              ELSE files
    IN  CASE stop = "written" -> [f1 EXCEPT !.primary = Serialize(g)]
          [] stop = "torn" -> [f1 EXCEPT !.primary = Torn]
          [] OTHER -> f1

\* write(): files = [primary, backup] before, g the graph, stop where it ends
write(files, g, stop) ==
    LET f1 == IF stop # "none" /\ files.backup.kind # "absent"
              THEN [files EXCEPT !.backup = Absent]
              ELSE files
        f2 == IF stop \in {"renamed", "torn", "written"} /\ f1.primary.kind # "absent"
              THEN [primary |-> Absent, backup |-> f1.primary]
              ELSE f1
    IN  CASE stop = "written" -> [f2 EXCEPT !.primary = Serialize(g)]
          [] stop = "torn" -> [f2 EXCEPT !.primary = Torn]
          [] OTHER -> f2

\* ------------------------------------------------------------------- purge
\* a removal that removes nothing
RemoveDomainMut(g, url) == g

\* self.graph.domains.remove(&url)
RemoveDomain(g, url) == [g EXCEPT !.domains = MapRemove(g.domains, url)]

RECURSIVE SweepLinks(_, _)
\* lines 104-108: every link of the visited entry that should be purged is
\* removed from domains (g changes as the sweep goes)
SweepLinks(g, links) ==
    IF links = <<>> THEN g
    ELSE LET l == Head(links)
             g1 == IF should_be_purged(g, l) THEN RemoveDomain(g, l) ELSE g
         IN SweepLinks(g1, Tail(links))

RECURSIVE SweepDomains(_, _, _)
\* lines 99-109: orig is the clone iterated, order the iteration order
SweepDomains(g, orig, order) ==
    IF order = <<>> THEN g
    ELSE LET url == Head(order)
             g1 == IF should_be_purged(g, url) THEN RemoveDomain(g, url) ELSE g
         IN SweepDomains(SweepLinks(g1, orig[url]), orig, Tail(order))

\* lines 111-116: dedup, then every entry that should be purged or should
\* not be queued is removed (all its copies)
SweepQueue(g, q, t) ==
    SelectSeq(Dedup(q), LAMBDA e : ~(should_be_purged(g, e) \/ ~should_be_queued(g, t, e)))

\* purge() without its trailing write: the possible [graph, queue] results,
\* one per iteration order of the domain map
purge(g, q, t) ==
    {LET g1 == SweepDomains(g, g.domains, order)
     IN [graph |-> g1, queue |-> SweepQueue(g1, q, t)] :
        order \in KeyOrders(DOMAIN g.domains)}

\* ------------------------------------------------------------ construction
RECURSIVE SeedLinks(_, _, _, _)
\* lines 20-27: the links of one domain entry that seed the frontier
SeedLinks(g, t, host, links) ==
    IF links = <<>> THEN <<>>
    ELSE LET l == Head(links)
             url == IF l \in DOMAIN g.redirects THEN g.redirects[l] ELSE l
             push == IF ~should_be_purged(g, url) /\ should_be_queued(g, t, url)
                     THEN JoinUrl(host, url)
                     ELSE <<>>
         IN push \o SeedLinks(g, t, host, Tail(links))

RECURSIVE SeedDomains(_, _, _)
\* lines 19-28 over the domain map in the iteration order `order`
SeedDomains(g, t, order) ==
    IF order = <<>> THEN <<>>
    ELSE SeedLinks(g, t, Head(order), g.domains[Head(order)])
         \o SeedDomains(g, t, Tail(order))

\* lines 30-32: sort, dedup, shuffle
Normalize(q) == Shuffles(Dedup(SortQueue(q)))

\* Manager::new(seed) on the files found on disk at time t, its write
\* stopping at `stop`: the possible [graph, queue, files] results. The
\* iteration order of the seeding loop is immaterial, the queue being sorted
\* afterwards.
new(files, seed, t, stop) ==
    UNION {
      LET g == r.graph
          pushed == r.queue \o SeedDomains(g, t, CHOOSE o \in KeyOrders(DOMAIN g.domains) : TRUE)
      IN {[graph |-> g, queue |-> q, files |-> write(files, g, stop)] : q \in Normalize(pushed)}
      : r \in purge(read(EmptyGraph, files.primary), seed, t)}

\* ------------------------------------------------------------------- state
VARIABLES
    queue,      \* Manager.queue
    graph,      \* Manager.graph
    now,        \* chrono::Utc::now().timestamp()
    primary,    \* graph.json
    backup,     \* graph.bak.json
    proc,       \* "running", or "crashed" (the process died inside a write)
    wprev,      \* graph.json as it was when the latest write() began
    wstop,      \* where the latest write() stopped
    last,       \* the latest call: its name, arguments and result
    enq         \* history: for each frontier position, when its entry was
                \* enqueued (kept only where a claim is about that order)

vars == <<queue, graph, now, primary, backup, proc, wprev, wstop, last, enq>>

Files == [primary |-> primary, backup |-> backup]

Call(op, url, arg, ret) == [op |-> op, url |-> url, arg |-> arg, ret |-> ret]

\* ------------------------------------------------------------------ inputs
SiteUrls == {UrlA, UrlB}

\* the links a fetched page may report
LinkUrls == {UrlA, UrlB, UrlBraw}

LinkLists == {<<>>} \cup UNION {[1..n -> LinkUrls] : n \in 1..MaxLinks}

\* the queues handed to Manager::new: none, one with an adjacent and one with
\* a distant repetition
SeedQueues == {<<>>, <<UrlA, UrlA, UrlB>>, <<UrlB, UrlA, UrlB>>}

\* graphs found on disk at the first start: no file, or a file with at most
\* one domain entry
InitGraphs ==
    {EmptyGraph} \cup
    {[EmptyGraph EXCEPT !.domains = MapInsert(EmptyMap, k, ls)] :
        k \in SiteUrls, ls \in LinkLists}

InitFiles ==
    {[primary |-> Absent, backup |-> Absent]} \cup
    {[primary |-> Serialize(g), backup |-> Absent] : g \in InitGraphs}

WithinBounds(g, q) ==
    /\ Len(q) <= MaxQueue
    /\ Cardinality(DOMAIN g.visited) <= MaxVisited
    /\ Cardinality(DOMAIN g.redirects) <= MaxRedirects

\* the process dies: its memory is gone, the files stay as the write left them
Crashed(files, before, stop) ==
    /\ proc' = "crashed"
    /\ graph' = EmptyGraph
    /\ queue' = <<>>
    /\ primary' = files.primary
    /\ backup' = files.backup
    /\ wprev' = before
    /\ wstop' = stop

\* ----------------------------------------------------------------- actions
Init ==
    \E disk \in InitFiles, seed \in SeedQueues :
      \E r \in new(disk, seed, Epoch, "written") :
        /\ queue = r.queue
        /\ graph = r.graph
        /\ now = Epoch
        /\ primary = r.files.primary
        /\ backup = r.files.backup
        /\ proc = "running"
        /\ wprev = disk.primary
        /\ wstop = "written"
        /\ last = Call("new", Blank, <<>>, "ok")
        /\ enq = <<>>

\* Manager::new in a fresh process (after a crash or a shutdown)
RestartIO(seed, stop, crash) ==
    \E r \in new(Files, seed, now, stop) :
      /\ last' = Call("new", Blank, <<>>, IF crash THEN "crash" ELSE "ok")
      /\ UNCHANGED now
      /\ IF crash
         THEN Crashed(r.files, primary, stop)
         ELSE /\ WithinBounds(r.graph, r.queue)
              /\ queue' = r.queue
              /\ graph' = r.graph
              /\ primary' = r.files.primary
              /\ backup' = r.files.backup
              /\ proc' = "running"
              /\ wprev' = primary
              /\ wstop' = stop

\* a dequeue that takes the oldest entry (remove(0)) instead of the last
DequeueFifo ==
    /\ proc = "running"
    /\ IF queue = <<>>
       THEN /\ last' = Call("dequeue", Blank, <<>>, "none")
            /\ UNCHANGED queue
       ELSE /\ last' = Call("dequeue", queue[1], <<>>, "some")
            /\ queue' = Tail(queue)
    /\ UNCHANGED <<graph, now, primary, backup, proc, wprev, wstop>>

\* dequeue(): Vec::pop
DequeueIO ==
    /\ proc = "running"
    /\ IF queue = <<>>
       THEN /\ last' = Call("dequeue", Blank, <<>>, "none")
            /\ UNCHANGED queue
       ELSE /\ last' = Call("dequeue", queue[Len(queue)], <<>>, "some")
            /\ queue' = SubSeq(queue, 1, Len(queue) - 1)
    /\ UNCHANGED <<graph, now, primary, backup, proc, wprev, wstop>>

Dequeue == DequeueIO /\ UNCHANGED enq

\* mark_visited that keeps the stamp a url already has
\* (entry(url).or_insert(timestamp) for insert(url, timestamp))
MarkVisitedKeep(url, stop, crash) ==
    /\ proc = "running"
    /\ LET g1 == IF url \in DOMAIN graph.visited THEN graph
                 ELSE [graph EXCEPT !.visited = MapInsert(graph.visited, url, now)]
           f1 == write(Files, g1, stop)
       IN /\ WithinBounds(g1, queue)
          /\ last' = Call("mark_visited", url, <<>>, "ok")
          /\ graph' = g1
          /\ primary' = f1.primary
          /\ backup' = f1.backup
          /\ wprev' = primary
          /\ wstop' = stop
          /\ UNCHANGED <<queue, now, proc>>

\* mark_visited(url)
MarkVisitedIO(url, stop, crash) ==
    /\ proc = "running"
    /\ LET g1 == [graph EXCEPT !.visited = MapInsert(graph.visited, url, now)]
           f1 == write(Files, g1, stop)
       IN /\ WithinBounds(g1, queue)
          /\ last' = Call("mark_visited", url, <<>>, IF crash THEN "crash" ELSE "ok")
          /\ UNCHANGED now
          /\ IF crash
             THEN Crashed(f1, primary, stop)
             ELSE /\ graph' = g1
                  /\ primary' = f1.primary
                  /\ backup' = f1.backup
                  /\ wprev' = primary
                  /\ wstop' = stop
                  /\ UNCHANGED <<queue, proc>>

\* add_redirect without the write of line 95
AddRedirectNoWrite(from, to, stop, crash) ==
    /\ proc = "running"
    /\ LET g1 == [graph EXCEPT !.redirects = MapInsert(graph.redirects, from, to)]
       IN /\ WithinBounds(g1, queue)
          /\ last' = Call("add_redirect", from, <<to>>, "ok")
          /\ graph' = g1
          /\ UNCHANGED <<queue, now, primary, backup, proc, wprev, wstop>>

\* add_redirect(from, to)
AddRedirectIO(from, to, stop, crash) ==
    /\ proc = "running"
    /\ LET g1 == [graph EXCEPT !.redirects = MapInsert(graph.redirects, from, to)]
           f1 == write(Files, g1, stop)
       IN /\ WithinBounds(g1, queue)
          /\ last' = Call("add_redirect", from, <<to>>, IF crash THEN "crash" ELSE "ok")
          /\ UNCHANGED now
          /\ IF crash
             THEN Crashed(f1, primary, stop)
             ELSE /\ graph' = g1
                  /\ primary' = f1.primary
                  /\ backup' = f1.backup
                  /\ wprev' = primary
                  /\ wstop' = stop
                  /\ UNCHANGED <<queue, proc>>

RECURSIVE Discovered(_, _, _, _)
\* lines 78-86: the links of info that save pushes, in order
Discovered(g, t, real_url, links) ==
    IF links = <<>> THEN <<>>
    ELSE LET l == Head(links)
             push == IF l \notin DOMAIN g.domains /\ should_be_queued(g, t, l)
                     THEN JoinUrl(real_url, l)
                     ELSE <<>>
         IN push \o Discovered(g, t, real_url, Tail(links))

\* save(real_url, info): its own write stops at stop1, the write of the
\* purge that follows at stop2; crash names the write (0: none) the process
\* dies in
SaveIO(real_url, links, stop1, stop2, crash) ==
    /\ proc = "running"
    /\ UNCHANGED now
    /\ IF should_be_purged(graph, real_url)
       THEN /\ stop1 = "written" /\ stop2 = "written" /\ crash = "no"
            /\ graph' = RemoveDomain(graph, real_url)
            /\ last' = Call("save", real_url, <<>>, "purged")
            /\ UNCHANGED <<queue, primary, backup, proc, wprev, wstop>>
       ELSE LET q1 == queue \o Discovered(graph, now, real_url, links)
                g1 == [graph EXCEPT !.domains = MapInsert(graph.domains, real_url, links)]
                f1 == write(Files, g1, stop1)
            IN IF crash = "first"
               THEN /\ WithinBounds(g1, queue)
                    /\ last' = Call("save", real_url, links, "crash")
                    /\ Crashed(f1, primary, stop1)
               ELSE \E r \in purge(g1, q1, now) :
                      LET f2 == write(f1, r.graph, stop2) IN
                      /\ WithinBounds(r.graph, r.queue)
                      /\ IF crash = "second"
                         THEN /\ last' = Call("save", real_url, links, "crash")
                              /\ Crashed(f2, f1.primary, stop2)
                         ELSE /\ last' = Call("save", real_url, links, "stored")
                              /\ queue' = r.queue
                              /\ graph' = r.graph
                              /\ primary' = f2.primary
                              /\ backup' = f2.backup
                              /\ wprev' = f1.primary
                              /\ wstop' = stop2
                              /\ UNCHANGED proc

\* time passes between two calls (the clock does not go back)
Tick ==
    /\ proc = "running"
    /\ \E t \in ClockValues : t > now /\ now' = t
    /\ UNCHANGED <<queue, graph, primary, backup, proc, wprev, wstop, last, enq>>

\* ------------------------------------------- the program when file IO succeeds
Restart ==
    /\ proc = "running"
    /\ \E seed \in SeedQueues : RestartIO(seed, "written", FALSE)
    /\ UNCHANGED enq

MarkVisited ==
    /\ \E url \in SiteUrls : MarkVisitedIO(url, "written", FALSE)
    /\ UNCHANGED enq

AddRedirect ==
    /\ \E from \in {UrlA, UrlB, UrlBraw}, to \in SiteUrls :
         from # to /\ AddRedirectIO(from, to, "written", FALSE)
    /\ UNCHANGED enq

Save ==
    /\ \E real_url \in URLS \ {UrlBraw}, links \in LinkLists :
         SaveIO(real_url, links, "written", "written", "no")
    /\ UNCHANGED enq

Next == Dequeue \/ MarkVisited \/ AddRedirect \/ Save \/ Tick \/ Restart

Spec == Init /\ [][Next]_vars

\* ------------------------- the program when a write may fail or the process die
\* The calls are those of Spec on fewer arguments, all made at one clock
\* reading; every write may stop anywhere, with an error the caller drops
\* (.ok()) or with the process dying.
FaultLinkLists == {<<>>, <<UrlB>>}

\* the outcomes of one write: where it stopped, and whether the process died
Outcomes ==
    {<<stop, crash>> \in WriteStops \X BOOLEAN : stop = "written" => ~crash}

RestartFault ==
    /\ \E o \in Outcomes : RestartIO(<<>>, o[1], o[2])
    /\ UNCHANGED enq

MarkVisitedFault ==
    /\ \E o \in Outcomes : MarkVisitedIO(UrlA, o[1], o[2])
    /\ UNCHANGED enq

AddRedirectFault ==
    /\ \E o \in Outcomes : AddRedirectIO(UrlA, UrlB, o[1], o[2])
    /\ UNCHANGED enq

\* save makes two writes: at most one of them goes wrong
SaveFault ==
    /\ \E links \in FaultLinkLists, o1 \in Outcomes, o2 \in Outcomes :
         /\ o1[1] = "written" \/ o2[1] = "written"
         /\ SaveIO(UrlA, links, o1[1], o2[1],
                   IF o1[2] THEN "first" ELSE IF o2[2] THEN "second" ELSE "no")
    /\ UNCHANGED enq

NextFault == Dequeue \/ MarkVisitedFault \/ AddRedirectFault \/ SaveFault \/ RestartFault

\* the first start finds no file, or the file a crawl left
InitFault ==
    \E disk \in {[primary |-> Absent, backup |-> Absent],
                  [primary |-> Serialize([EmptyGraph EXCEPT !.domains = MapInsert(EmptyMap, UrlB, <<UrlA>>)]),
                   backup |-> Absent]} :
      \E r \in new(disk, <<>>, Epoch, "written") :
        /\ queue = r.queue
        /\ graph = r.graph
        /\ now = Epoch
        /\ primary = r.files.primary
        /\ backup = r.files.backup
        /\ proc = "running"
        /\ wprev = disk.primary
        /\ wstop = "written"
        /\ last = Call("new", Blank, <<>>, "ok")
        /\ enq = <<>>

SpecFault == InitFault /\ [][NextFault]_vars

\* ------------------------------- the handlers on graphs and queues of any size
\* save(real_url, info) and mark_visited(url), file IO succeeding, as SaveIO
\* and MarkVisitedIO but on a graph and a queue of any size
SaveAny(real_url, links) ==
    /\ proc = "running"
    /\ UNCHANGED <<now, proc>>
    /\ IF should_be_purged(graph, real_url)
       THEN /\ graph' = RemoveDomain(graph, real_url)
            /\ last' = Call("save", real_url, <<>>, "purged")
            /\ UNCHANGED <<queue, primary, backup, wprev, wstop>>
       ELSE LET q1 == queue \o Discovered(graph, now, real_url, links)
                g1 == [graph EXCEPT !.domains = MapInsert(graph.domains, real_url, links)]
                f1 == write(Files, g1, "written")
            IN \E r \in purge(g1, q1, now) :
                 LET f2 == write(f1, r.graph, "written") IN
                 /\ last' = Call("save", real_url, links, "stored")
                 /\ queue' = r.queue
                 /\ graph' = r.graph
                 /\ primary' = f2.primary
                 /\ backup' = f2.backup
                 /\ wprev' = f1.primary
                 /\ wstop' = "written"

\* a mark_visited that stamps nothing
MarkNothing(url) ==
    /\ proc = "running"
    /\ last' = Call("mark_visited", url, <<>>, "ok")
    /\ UNCHANGED <<queue, graph, now, primary, backup, proc, wprev, wstop>>

MarkAny(url) ==
    /\ proc = "running"
    /\ LET g1 == [graph EXCEPT !.visited = MapInsert(graph.visited, url, now)]
           f1 == write(Files, g1, "written")
       IN /\ last' = Call("mark_visited", url, <<>>, "ok")
          /\ graph' = g1
          /\ primary' = f1.primary
          /\ backup' = f1.backup
          /\ wprev' = primary
          /\ wstop' = "written"
          /\ UNCHANGED <<queue, now, proc>>

\* --------------------------------------------------------- the fetcher's loop
\* The collaborator of the spec: it calls dequeue, stops when nothing is
\* returned, and otherwise calls save(url, info) with the links it found on
\* the page (any list: a page may change between two fetches) and then
\* mark_visited(url); last tells where in the loop it is. The clock stays
\* inside one revisit window. The loop keeps running (weak fairness) until it
\* stops by itself.
FetchLinkLists == {<<>>} \cup UNION {[1..n -> LinkUrls] : n \in 1..MaxFetchLinks}

FetchDequeue ==
    /\ last.op \in {"new", "mark_visited"}
    /\ Dequeue

FetchSave ==
    /\ last.op = "dequeue"
    /\ last.ret = "some"
    /\ \E links \in FetchLinkLists : SaveAny(last.url, links)
    /\ UNCHANGED enq

FetchMark ==
    /\ last.op = "save"
    /\ MarkAny(last.url)
    /\ UNCHANGED enq

NextFetch == FetchDequeue \/ FetchSave \/ FetchMark

SpecFetch == Init /\ [][NextFetch]_vars /\ WF_vars(NextFetch)

\* ------------------------------------ the frontier with its enqueue history
\* The calls that change the frontier (new, save, dequeue), file IO
\* succeeding, at one clock reading. enq[i] tells for the entry at queue[i]
\* its rank in the order of the pushes (ord) and the call that pushed it
\* (by): the entries of the Vec handed to new in their order, then the
\* pushes of line 24, then those of line 83. Every Vec operation acts on enq
\* as it acts on the queue.
RECURSIVE Pick(_, _, _)
\* the elements of s at the positions I, from position i on
Pick(s, I, i) ==
    IF i > Len(s) THEN <<>>
    ELSE (IF i \in I THEN <<s[i]>> ELSE <<>>) \o Pick(s, I, i + 1)

\* the ranks 1..Len(e) in the order of e's ord fields
Renumber(e) ==
    [i \in 1..Len(e) |->
       [e[i] EXCEPT !.ord = Cardinality({j \in 1..Len(e) : e[j].ord <= e[i].ord})]]

\* the positions of q that lines 111-116 keep: the first of each run of
\* equal entries, unless it should be purged or should not be queued
KeptByPurge(g, q, t) ==
    {i \in 1..Len(q) :
       /\ i = 1 \/ q[i] # q[i - 1]
       /\ ~(should_be_purged(g, q[i]) \/ ~should_be_queued(g, t, q[i]))}

FirstIndex(s, u) == CHOOSE i \in 1..Len(s) : s[i] = u /\ \A j \in 1..(i - 1) : s[j] # u

\* the history after new(seed) gave the graph g and the frontier q: the sort
\* is stable and dedup keeps the first of equal entries, so each entry of q
\* is the earliest push of its string
EnqAfterNew(g, seed, t, q) ==
    {LET all == SweepQueue(g, seed, t) \o SeedDomains(g, t, order)
     IN Renumber([i \in 1..Len(q) |-> [ord |-> FirstIndex(all, q[i]), by |-> "new"]]) :
        order \in KeyOrders(DOMAIN g.domains)}

\* the history after a save that stored real_url's links
EnqAfterSave(g1, real_url, links) ==
    LET pushed == Discovered(graph, now, real_url, links)
        e1 == enq \o [i \in 1..Len(pushed) |-> [ord |-> Len(enq) + i, by |-> "save"]]
    IN Renumber(Pick(e1, KeptByPurge(g1, queue \o pushed, now), 1))

FrontierSeeds == {<<>>, <<UrlA, UrlB>>, <<UrlB, UrlA, UrlB>>}

InitFrontier ==
    \E disk \in InitFiles, seed \in FrontierSeeds :
      \E r \in new(disk, seed, Epoch, "written") :
        /\ queue = r.queue
        /\ graph = r.graph
        /\ now = Epoch
        /\ primary = r.files.primary
        /\ backup = r.files.backup
        /\ proc = "running"
        /\ wprev = disk.primary
        /\ wstop = "written"
        /\ last = Call("new", Blank, <<>>, "ok")
        /\ enq \in EnqAfterNew(r.graph, seed, Epoch, r.queue)

RestartLifo ==
    \E seed \in FrontierSeeds :
      /\ RestartIO(seed, "written", FALSE)
      /\ enq' \in EnqAfterNew(graph', seed, now, queue')

DequeueLifo ==
    /\ DequeueIO
    /\ enq' = IF enq = <<>> THEN enq ELSE Renumber(SubSeq(enq, 1, Len(enq) - 1))

SaveLifo ==
    \E real_url \in SiteUrls, links \in LinkLists :
      /\ SaveIO(real_url, links, "written", "written", "no")
      /\ enq' = IF last'.ret = "purged" THEN enq
                ELSE EnqAfterSave(graph', real_url, links)

NextFrontier == DequeueLifo \/ SaveLifo \/ RestartLifo

SpecFrontier == InitFrontier /\ [][NextFrontier]_vars

\* ----------------------------------------- the normalization of lines 30-32
\* Lines 30-32 applied to any Vec of up to MaxQueue of four strings.
NormUrls == {UrlA, UrlBraw, UrlB, UrlC}

NormQueues == {<<>>} \cup UNION {[1..n -> NormUrls] : n \in 1..MaxQueue}

InitNormalize ==
    /\ queue \in NormQueues
    /\ graph = EmptyGraph
    /\ now = Epoch
    /\ primary = Absent
    /\ backup = Absent
    /\ proc = "running"
    /\ wprev = Absent
    /\ wstop = "none"
    /\ last = Call("queue", Blank, <<>>, "ok")
    /\ enq = <<>>

\* sort, dedup, shuffle; last.arg keeps the queue they were applied to
NormalizeOnce ==
    /\ queue' \in Normalize(queue)
    /\ last' = Call("normalize", Blank, queue, "ok")
    /\ UNCHANGED <<graph, now, primary, backup, proc, wprev, wstop, enq>>

NextNormalize == NormalizeOnce

SpecNormalize == InitNormalize /\ [][NextNormalize]_vars

\* ------------------------------------- the two policies on graphs of any shape
\* The policies, the sweep and the seeding are functions of the graph and the
\* clock. Here the graph is any graph a graph.json may hold over three sites
\* (entries for two of them, redirects from two of them, visit stamps one
\* window and one second less than one window before the clock reading), just
\* read by line 16, and each behaviour makes one call on it.
PolicyUrls == {UrlA, UrlB, UrlC}

PolicyLinkLists == {<<>>} \cup UNION {[1..n -> PolicyUrls] : n \in 1..MaxLinks}

PolicyDomains == UNION {[K -> PolicyLinkLists] : K \in SUBSET {UrlA, UrlB}}

PolicyVisited ==
    {v \in UNION {[K -> {Epoch, Epoch + 1}] : K \in SUBSET PolicyUrls} :
       UrlA \in DOMAIN v => v[UrlA] = Epoch}

PolicyRedirects ==
    {r \in UNION {[K -> PolicyUrls] : K \in SUBSET {UrlA, UrlB}} :
       \A k \in DOMAIN r : r[k] # k}

PolicyGraphs ==
    {[domains |-> d, visited |-> v, redirects |-> r] :
       d \in PolicyDomains, v \in PolicyVisited, r \in PolicyRedirects}

Bool(b) == IF b THEN "true" ELSE "false"

InitPolicy ==
    /\ graph \in PolicyGraphs
    /\ queue = <<>>
    /\ now = Epoch + Window
    /\ primary = Serialize(graph)
    /\ backup = Absent
    /\ proc = "running"
    /\ wprev = Absent
    /\ wstop = "none"
    /\ last = Call("read", Blank, <<>>, "ok")
    /\ enq = <<>>

\* a call of should_be_queued(url)
AskQueued ==
    /\ last.op = "read"
    /\ \E url \in PolicyUrls :
         last' = Call("should_be_queued", url, <<>>, Bool(should_be_queued(graph, now, url)))
    /\ UNCHANGED <<queue, graph, now, primary, backup, proc, wprev, wstop, enq>>

\* a call of should_be_purged(url)
AskPurged ==
    /\ last.op = "read"
    /\ \E url \in PolicyUrls \cup {Blank, " ", UrlYT} :
         last' = Call("should_be_purged", url, <<>>, Bool(should_be_purged(graph, url)))
    /\ UNCHANGED <<queue, graph, now, primary, backup, proc, wprev, wstop, enq>>

\* the rest of Manager::new([]) after the read of line 16
PolicyNew ==
    /\ last.op = "read"
    /\ \E r \in new(Files, <<>>, now, "written") :
         /\ queue' = r.queue
         /\ graph' = r.graph
         /\ primary' = r.files.primary
         /\ backup' = r.files.backup
         /\ wprev' = primary
         /\ wstop' = "written"
    /\ last' = Call("new", Blank, <<>>, "ok")
    /\ UNCHANGED <<now, proc, enq>>

\* save(real_url, info) on the graph the calls since construction left: the
\* read graph with any redirects and stamps added since (add_redirect and
\* mark_visited do not purge), but without an entry whose only link is its
\* own key, which the purge of line 17 removed
PolicySave ==
    /\ last.op = "read"
    /\ \A k \in DOMAIN graph.domains : graph.domains[k] # <<k>>
    /\ \E real_url \in PolicyUrls, links \in PolicyLinkLists : SaveAny(real_url, links)
    /\ UNCHANGED enq

NextPolicy == AskQueued \/ AskPurged \/ PolicyNew \/ PolicySave

SpecPolicy == InitPolicy /\ [][NextPolicy]_vars

\* ------------------------------------------------------------------ claims
Running == proc = "running"

\* C1: in every state reached after construction and after any sequence of
\* dequeue, save, mark_visited and add_redirect calls, the frontier queue
\* holds no two entries with the same string value.
C1_NoDuplicateEntries == Running => NoDuplicates(queue)

\* C2: after construction and after every completed save no domains[k] has
\* links equal to exactly [k]; after save(D, {links: [D]}), on either path of
\* save, domains does not contain D.
C2_NoSelfLoopOnly ==
    (Running /\ last.op \in {"new", "save"}) =>
      /\ \A k \in DOMAIN graph.domains : graph.domains[k] # <<k>>
      /\ (last.ret = "stored" /\ last.arg = <<last.url>>) => last.url \notin DOMAIN graph.domains
      /\ last.ret = "purged" => last.url \notin DOMAIN graph.domains

\* a save of a page whose only link is the page itself went through the
\* storing path (insert, write, purge)
C2_Witness ==
    /\ last.op = "save"
    /\ last.ret = "stored"
    /\ last.arg = <<last.url>>
    /\ graph.domains # EmptyMap

\* C3: dequeue never returns a URL whose visit timestamp is less than
\* 604800 seconds before the current time.
C3_DequeueOutsideWindow ==
    (last.op = "dequeue" /\ last.ret = "some" /\ last.url \in DOMAIN graph.visited)
      => ~InsideWindow(now, graph.visited[last.url])

\* C4: when the process died inside a write after graph.json was renamed to
\* graph.bak.json and before the new graph.json was complete, the restart
\* (Manager::new, its own write succeeding) does not lose the previous
\* generation: it is the graph the Manager loads, or graph.json or
\* graph.bak.json still hold it afterwards.
C4_CrashKeepsGeneration ==
    [][(/\ proc = "crashed"
        /\ proc' = "running"
        /\ wstop' = "written"
        /\ wstop \in {"renamed", "torn"}
        /\ wprev.kind = "json")
       => \/ read(EmptyGraph, primary) = read(EmptyGraph, wprev)
          \/ primary' = wprev
          \/ backup' = wprev]_vars

\* C5: wherever the latest write stopped (before or after deleting the
\* backup, after the rename, inside or after the write of the new primary),
\* if graph.json existed when that write began, its content of that moment is
\* intact in graph.json or in graph.bak.json; when the write completed,
\* graph.bak.json holds exactly that content and graph.json the new text.
C5_RotationKeepsPrevious ==
    wprev.kind # "absent" =>
      /\ primary = wprev \/ backup = wprev
      /\ wstop = "removed" => primary = wprev /\ backup = Absent
      /\ wstop \in {"renamed", "torn"} => backup = wprev
      /\ wstop = "written" => backup = wprev /\ primary.kind = "json"

\* a write stopped after the rename, inside the write of the new primary,
\* while graph.json held a graph when it began
C5_Witness ==
    /\ wstop = "torn"
    /\ wprev.kind = "json"
    /\ read(EmptyGraph, wprev) # EmptyGraph
    /\ primary = Torn

\* C6: when file IO succeeds, after each of save (on every path),
\* mark_visited and add_redirect returns, graph.json holds the serialization
\* of the current in-memory graph.
C6_PrimaryIsCurrentGraph ==
    (Running /\ last.op \in {"save", "mark_visited", "add_redirect"})
      => primary = Serialize(graph)

\* C7: immediately after construction and after each of save, mark_visited
\* and add_redirect returns, no key k of domains satisfies should_be_purged(k).
C7_PurgedAfterEveryCall ==
    (Running /\ last.op \in {"new", "save", "mark_visited", "add_redirect"})
      => \A k \in DOMAIN graph.domains : ~should_be_purged(graph, k)

\* C8: at a fixed clock time, applying purge twice in succession leaves the
\* same domains map and the same frontier queue as applying it once.
C8_PurgeIdempotent ==
    Running =>
      \A r1 \in purge(graph, queue, now) :
        \A r2 \in purge(r1.graph, r1.queue, now) :
          r2.graph.domains = r1.graph.domains /\ r2.queue = r1.queue

\* C9: save(real_url, info) with real_url purge-eligible removes any
\* domains[real_url] entry, stores nothing, enqueues nothing and leaves the
\* frontier queue, every other domains entry, visited and redirects unchanged.
C9_PurgedSaveFrame ==
    [][(/\ last'.op = "save"
        /\ now' = now
        /\ should_be_purged(graph, last'.url))
       => /\ last'.ret = "purged"
          /\ last'.url \notin DOMAIN graph'.domains
          /\ DOMAIN graph'.domains = DOMAIN graph.domains \ {last'.url}
          /\ \A k \in DOMAIN graph'.domains : graph'.domains[k] = graph.domains[k]
          /\ queue' = queue
          /\ graph'.visited = graph.visited
          /\ graph'.redirects = graph.redirects]_vars

\* a save of a purge-eligible URL has removed an entry (the one graph.json
\* still shows) while the frontier held entries
C9_Witness ==
    /\ last.op = "save"
    /\ last.ret = "purged"
    /\ last.url \in DOMAIN read(EmptyGraph, primary).domains
    /\ last.url \notin DOMAIN graph.domains
    /\ queue # <<>>

\* the query times of C10 for a visit at time stamp: the bounds of the
\* window, the two of the spec's scenario, and the clock reading itself
QueryTimes(stamp) ==
    {t \in {stamp, stamp + 3600, stamp + Window - 1, stamp + Window, stamp + 700000, now} :
       t >= stamp}

\* C10: for every url with visited[url] = T and no redirect entry,
\* should_be_queued(url) is false at every query time in [T, T+604799] and
\* true at every query time >= T+604800; a url with no visit timestamp and no
\* redirect entry is always queueable.
C10_RevisitWindow ==
    Running =>
      \A url \in URLS :
        url \notin DOMAIN graph.redirects =>
          IF url \in DOMAIN graph.visited
          THEN \A t \in QueryTimes(graph.visited[url]) :
                 should_be_queued(graph, t, url) <=> (t >= graph.visited[url] + Window)
          ELSE \A t \in QueryTimes(now) : should_be_queued(graph, t, url)

\* a URL without redirect entry was visited a full window before the clock
\* reading, and another URL was never visited
C10_Witness ==
    /\ \E url \in DOMAIN graph.visited :
         url \notin DOMAIN graph.redirects /\ now = graph.visited[url] + Window
    /\ \E url \in SiteUrls : url \notin DOMAIN graph.visited \cup DOMAIN graph.redirects

\* a stamp is inside the revisit window at time t
Fresh(g, t, url) ==
    /\ url \in DOMAIN g.visited
    /\ g.visited[url] <= t
    /\ t < g.visited[url] + Window

\* C11: if redirects[A] = B and visited[B] is less than 604800 seconds old,
\* should_be_queued(A) is false even when A has no visit timestamp; if
\* neither A nor B has a visit timestamp inside the window,
\* should_be_queued(A) is true.
C11_RedirectAwareRevisit ==
    /\ \A a \in DOMAIN graph.redirects :
         LET b == graph.redirects[a] IN
           /\ Fresh(graph, now, b) => ~should_be_queued(graph, now, a)
           /\ (~Fresh(graph, now, a) /\ ~Fresh(graph, now, b)) => should_be_queued(graph, now, a)
    /\ (last.op = "should_be_queued" /\ last.url \in DOMAIN graph.redirects) =>
         (last.ret = "false" <=>
            Fresh(graph, now, last.url) \/ Fresh(graph, now, graph.redirects[last.url]))

\* should_be_queued(A) was called and answered false for a never visited A
\* whose redirect target was visited one second less than a window ago
C11_Witness ==
    /\ last.op = "should_be_queued"
    /\ last.ret = "false"
    /\ last.url \notin DOMAIN graph.visited
    /\ last.url \in DOMAIN graph.redirects
    /\ graph.redirects[last.url] \in DOMAIN graph.visited
    /\ now - graph.visited[graph.redirects[last.url]] = Window - 1

\* the entry on top of the frontier is the one pushed last
TopIsLatest == \A i \in 1..Len(enq) : enq[i].ord <= enq[Len(enq)].ord

\* what a dequeue step does besides choosing the entry it returns
DequeueFrame ==
    /\ graph' = graph
    /\ primary' = primary
    /\ backup' = backup
    /\ IF queue = <<>>
       THEN last'.ret = "none" /\ queue' = queue
       ELSE /\ last'.ret = "some"
            /\ last'.url = queue[Len(queue)]
            /\ queue' = SubSeq(queue, 1, Len(queue) - 1)

\* C12 as stated: dequeue() removes and returns the most recently enqueued
\* URL among those still in the frontier (LIFO), leaving the remaining
\* entries, their order and the graph unchanged; on an empty frontier it
\* returns nothing and changes no state.
C12_DequeueMostRecent ==
    [][last'.op = "dequeue" => (DequeueFrame /\ TopIsLatest)]_vars

\* C12 as amended: dequeue() removes and returns the last entry of the
\* frontier, which is the most recently enqueued URL among those still in
\* the frontier whenever an entry pushed by save is still there (the entries
\* of a construction come out in its shuffled order); the remaining entries,
\* their order and the graph are unchanged; on an empty frontier it returns
\* nothing and changes no state.
C12_DequeueLast ==
    [][last'.op = "dequeue" =>
         /\ DequeueFrame
         /\ (\E i \in 1..Len(enq) : enq[i].by = "save") =>
              (TopIsLatest /\ enq[Len(enq)].by = "save")]_vars

\* a dequeue returned an entry pushed by save while an older entry pushed by
\* save and an entry of the construction stayed in the frontier
C12_Witness ==
    /\ last.op = "dequeue"
    /\ last.ret = "some"
    /\ \E i, j \in 1..Len(enq) : enq[i].by = "new" /\ enq[j].by = "save"

Entries(q) == {q[i] : i \in 1..Len(q)}

\* C13: the normalization at construction (sort, remove adjacent duplicates,
\* shuffle) yields a queue without duplicate entries whose set of entries is
\* the set of entries before it, for any input queue; normalizing again
\* yields the same set ([a, a, b] gives the set {a, b}, of length 2).
C13_NormalizeSet ==
    last.op = "normalize" =>
      /\ NoDuplicates(queue)
      /\ Entries(queue) = Entries(last.arg)
      /\ Len(queue) = Cardinality(Entries(last.arg))
      /\ \A q2 \in Normalize(queue) : Entries(q2) = Entries(queue) /\ Len(q2) = Len(queue)
      /\ last.arg = <<UrlA, UrlA, UrlB>> => (Entries(queue) = {UrlA, UrlB} /\ Len(queue) = 2)

\* a queue with two equal entries apart from each other was normalized, and
\* the shuffle left its two strings in the reverse of their sorted order
C13_Witness ==
    /\ last.op = "normalize"
    /\ last.arg = <<UrlB, UrlA, UrlB>>
    /\ queue = <<UrlB, UrlA>>

\* C14: after add_redirect(from, to), file IO succeeding, a restart
\* (Manager::new reloading graph.json and purging) yields a graph with
\* redirects[from] = to; no operation other than a later add_redirect for the
\* same key removes or changes a redirects entry.
C14_RedirectRoundTrip ==
    [][/\ last'.op = "add_redirect" =>
            /\ graph'.redirects = MapInsert(graph.redirects, last'.url, last'.arg[1])
            /\ read(EmptyGraph, primary').redirects = graph'.redirects
       /\ last'.op = "new" =>
            /\ graph'.redirects = graph.redirects
            /\ read(EmptyGraph, primary').redirects = graph'.redirects
       /\ last'.op \notin {"add_redirect", "new"} =>
            /\ graph'.redirects = graph.redirects
            /\ read(EmptyGraph, primary').redirects = graph'.redirects]_vars

\* a restart, made after other calls followed the add_redirect, loaded the
\* redirect from graph.json
C14_Witness ==
    /\ last.op = "new"
    /\ graph.redirects # EmptyMap
    /\ graph.visited # EmptyMap
    /\ graph.domains # EmptyMap

\* g without the visit stamp of c
Forget(g, c) == [g EXCEPT !.visited = MapRemove(g.visited, c)]

\* the URLs of the links and their direct redirect targets
Near(g, links) ==
    Entries(links) \cup {g.redirects[l] : l \in Entries(links) \cap DOMAIN g.redirects}

AllLinks(g) == UNION {Entries(g.domains[k]) : k \in DOMAIN g.domains}

\* the frontiers Manager::new([]) may build from the graph g of graph.json
Seeded(g, t) ==
    {r.queue : r \in new([primary |-> Serialize(g), backup |-> Absent], <<>>, t, "written")}

\* C15: redirect resolution is single-hop only: in seeding and in save
\* alike, whether a link is enqueued depends on the visit/purge status of the
\* link's URL and of its direct redirect target only, never on the status of
\* a URL two or more redirect hops away (with redirects L->B and B->C, the
\* visit timestamp of C does not affect whether L's link is enqueued).
C15_SingleHop ==
    [][/\ last'.op = "new" =>
            \A c \in DOMAIN graph.visited :
              (\A l \in AllLinks(graph') : c \notin Near(graph, <<l>>)) =>
                queue' \in Seeded(Forget(graph, c), now)
       /\ (last'.op = "save" /\ last'.ret = "stored") =>
            \A c \in DOMAIN graph.visited :
              c \notin Near(graph, last'.arg) =>
                Discovered(graph, now, last'.url, last'.arg)
                  = Discovered(Forget(graph, c), now, last'.url, last'.arg)]_vars

\* C16: a link is appended to the frontier only if its absolute form is not
\* purge-eligible and is revisit-eligible, so immediately after Manager
\* construction and after every save no frontier entry e has
\* should_be_purged(e) true or should_be_queued(e) false.
C16_FrontierEligible ==
    (Running /\ last.op \in {"new", "save"}) =>
      \A i \in 1..Len(queue) :
        ~should_be_purged(graph, queue[i]) /\ should_be_queued(graph, now, queue[i])

\* rule 3 as C17 words it: the redirect target R of url has an entry whose
\* only link is R itself
DegenerateTarget(g, url) ==
    /\ url \in DOMAIN g.redirects
    /\ g.redirects[url] \in DOMAIN g.domains
    /\ g.domains[g.redirects[url]] = <<g.redirects[url]>>

\* one of the four rules applies to url
SomeRule(g, url) ==
    \/ url \in {Blank, " ", "  "}
    \/ url \in DOMAIN g.domains /\ g.domains[url] = <<url>>
    \/ DegenerateTarget(g, url)
    \/ url = UrlYT

\* C17: should_be_purged(url) returns true whenever url has a redirect target
\* R = redirects[url] such that domains[R] exists and has exactly one link,
\* equal to R's own key, and returns false when none of the four rules (blank
\* url, self-loop domain, degenerate redirect target, denylisted host) applies.
C17_PurgeRules ==
    last.op = "should_be_purged" =>
      /\ DegenerateTarget(graph, last.url) => last.ret = "true"
      /\ ~SomeRule(graph, last.url) => last.ret = "false"

\* C18: with a non-decreasing clock, visited[url] never decreases over any
\* sequence of operations: mark_visited(url) overwrites it with the current
\* time, and no other operation (save, add_redirect, dequeue, purge, and the
\* restart that reloads graph.json) removes or lowers a visited entry.
C18_VisitedMonotone ==
    [][/\ \A url \in DOMAIN graph.visited :
            url \in DOMAIN graph'.visited /\ graph'.visited[url] >= graph.visited[url]
       /\ (last'.op = "mark_visited" /\ now' = now) =>
            graph'.visited = MapInsert(graph.visited, last'.url, now)
       /\ last'.op # "mark_visited" => graph'.visited = graph.visited]_vars

\* mark_visited has overwritten an older stamp (the one graph.bak.json still
\* shows) with the current time
C18_Witness ==
    /\ last.op = "mark_visited"
    /\ graph.visited[last.url] = now
    /\ backup.kind = "json"
    /\ last.url \in DOMAIN read(EmptyGraph, backup).visited
    /\ read(EmptyGraph, backup).visited[last.url] < now

\* C19: the outcome of purge() is deterministic: for a given graph and queue
\* at a fixed clock time, the set of domains remaining after the sweep is the
\* same for every order in which the domain map is iterated.
C19_PurgeDeterministic ==
    [][/\ last'.op = "new" =>
            \A r \in purge(graph, queue, now) : r.graph.domains = graph'.domains
       /\ (last'.op = "save" /\ last'.ret = "stored") =>
            \A r \in purge([graph EXCEPT !.domains = MapInsert(graph.domains, last'.url, last'.arg)],
                           queue, now) :
              r.graph.domains = graph'.domains]_vars

\* the fetcher has stopped: dequeue returned nothing on an empty frontier
Stopped == last.op = "dequeue" /\ last.ret = "none" /\ queue = <<>>

\* C20: no infinite re-crawling: over a finite set of URLs, within one
\* revisit window, with a fetcher that repeatedly calls dequeue, then
\* save(url, links) and then mark_visited(url) for the returned url, the
\* frontier eventually becomes empty and dequeue returns nothing (a page
\* linking to itself, including links = [itself], is not re-enqueued forever).
C20_CrawlTerminates == <>Stopped

\* the fetcher stopped after it crawled two pages, one of them stored with a
\* link to itself
C20_Witness ==
    /\ Stopped
    /\ Cardinality(DOMAIN graph.visited) >= 2
    /\ \E u \in DOMAIN graph.domains \cap DOMAIN graph.visited :
         u \in Entries(graph.domains[u])

====
